---- MODULE Spec2Model ----
(***************************************************************************)
(* A model of claudtracker.py: the JSONL session parser                    *)
(* (ClaudeCodeUsageTracker.parse_jsonl_file / _process_entry), the         *)
(* aggregation views (get_aggregated_stats, get_daily_stats, the           *)
(* top-projects table of main), the cost calculator and the persisted      *)
(* UsageHistory store.                                                     *)
(*                                                                         *)
(* Python values are modelled as tagged records of one shape per kind, so  *)
(* that a field of the wrong JSON type is a value of the model and the     *)
(* exception Python raises on it is an outcome of the operator using it.   *)
(* Time is counted in hours; a datetime is its wall-clock hour plus, when  *)
(* it is timezone-aware, its UTC offset in hours.                          *)
(***************************************************************************)
EXTENDS Integers, Sequences, FiniteSets, TLC

VARIABLES
    pc,         \* position of the running operation
    openable,   \* parse_jsonl_file: whether open(filepath) succeeds
    lines,      \* parse_jsonl_file: the lines of the source, as what json.loads makes of them
    pos,        \* parse_jsonl_file: number of lines consumed by the for loop
    stats,      \* parse_jsonl_file: the stats dict being accumulated / returned
    files,      \* the discovered session files, in find_jsonl_files order
    sessions,   \* the sessions list handed to the aggregation view last called
    view,       \* the value returned by the aggregation view last called
    hfile0,     \* UsageHistory: usage_history.json as the process found it
    hfile,      \* UsageHistory: the persisted usage_history.json
    hdata,      \* UsageHistory: self.data
    hlast,      \* UsageHistory: the last call made on the store and its outcome
    clock,      \* UsageHistory: datetime.now() of the next call
    bundle,     \* calculate_equivalent_cost: the stats argument
    model_key,  \* calculate_equivalent_cost: the model argument
    cost        \* calculate_equivalent_cost: the returned dict

parseVars == <<openable, lines, pos, stats>>
aggVars   == <<files, sessions, view>>
histVars  == <<hfile0, hfile, hdata, hlast, clock>>
costVars  == <<bundle, model_key, cost>>
vars      == <<pc, parseVars, aggVars, histVars, costVars>>

(***************************************************************************)
(* Bounds of the model.                                                    *)
(***************************************************************************)
MaxLines == 3

(***************************************************************************)
(* JSON values.  A scalar slot of a record is [t, s, n]: t is the JSON     *)
(* type met there ("absent" when the key is missing).                      *)
(***************************************************************************)
JAbsent == [t |-> "absent", s |-> "", n |-> 0]
JNull   == [t |-> "null", s |-> "", n |-> 0]
JStr(x) == [t |-> "str", s |-> x, n |-> 0]
JInt(x) == [t |-> "int", s |-> "", n |-> x]

\* Python truthiness of a scalar slot as `if x:` and `x or y` test it.
Truthy(v) ==
    \/ v.t = "str" /\ v.s # ""
    \/ v.t = "int" /\ v.n # 0

(***************************************************************************)
(* datetime values.  kind "none" is None; "naive" has no tzinfo; "aware"   *)
(* has one.  wall is the wall-clock hour, off the UTC offset.              *)
(***************************************************************************)
NoneTime       == [kind |-> "none", wall |-> 0, off |-> 0]
Naive(w)       == [kind |-> "naive", wall |-> w, off |-> 0]
Aware(w, o)    == [kind |-> "aware", wall |-> w, off |-> o]
Instant(d)     == d.wall - d.off

\* datetime.__lt__ / __gt__: naive against aware raises TypeError.
Comparable(a, b) == a.kind = b.kind /\ a.kind # "none"
DtLess(a, b) == IF a.kind = "aware" THEN Instant(a) < Instant(b) ELSE a.wall < b.wall

\* A timestamp slot: t as for a scalar; for a string, text is "" (empty),
\* "garbage" (fromisoformat raises ValueError) or "iso" with its wall-clock hour
\* and tz: "none" (no offset), "Z" or "offset".
TsAbsent       == [t |-> "absent", text |-> "", wall |-> 0, tz |-> "none", off |-> 0]
TsNull         == [t |-> "null", text |-> "", wall |-> 0, tz |-> "none", off |-> 0]
TsInt          == [t |-> "int", text |-> "", wall |-> 0, tz |-> "none", off |-> 0]
TsEmpty        == [t |-> "str", text |-> "", wall |-> 0, tz |-> "none", off |-> 0]
TsGarbage      == [t |-> "str", text |-> "garbage", wall |-> 0, tz |-> "none", off |-> 0]
TsNaive(w)     == [t |-> "str", text |-> "iso", wall |-> w, tz |-> "none", off |-> 0]
TsZ(w)         == [t |-> "str", text |-> "iso", wall |-> w, tz |-> "Z", off |-> 0]
TsOffset(w, o) == [t |-> "str", text |-> "iso", wall |-> w, tz |-> "offset", off |-> o]

\* `if timestamp:` -- None, "" and a missing key are falsy; TsInt stands for a
\* non-zero number.
TsTruthy(ts) == ts.t = "int" \/ (ts.t = "str" /\ ts.text # "")

\* datetime.fromisoformat(timestamp.replace("Z", "+00:00")): the datetime, or
\* NoneTime when the call raises (a non-string has no replace, garbage does not parse).
ParseTimestamp(ts) ==
    IF ts.t # "str" \/ ts.text # "iso" THEN NoneTime
    ELSE IF ts.tz = "none" THEN Naive(ts.wall)
    ELSE IF ts.tz = "Z" THEN Aware(ts.wall, 0)
    ELSE Aware(ts.wall, ts.off)

(***************************************************************************)
(* The nested message object of an assistant record.                       *)
(***************************************************************************)
NoUsage == [t |-> "absent", input_tokens |-> JAbsent, output_tokens |-> JAbsent,
            cache_read_input_tokens |-> JAbsent, cache_creation_input_tokens |-> JAbsent]
Usage(i, o, cr, cw) ==
    [t |-> "obj", input_tokens |-> i, output_tokens |-> o,
     cache_read_input_tokens |-> cr, cache_creation_input_tokens |-> cw]
UsageOfType(ty) == [NoUsage EXCEPT !.t = ty]

\* `if usage:` -- a dict is truthy when it has a key.
UsageHasKey(u) ==
    \/ u.input_tokens.t # "absent"
    \/ u.output_tokens.t # "absent"
    \/ u.cache_read_input_tokens.t # "absent"
    \/ u.cache_creation_input_tokens.t # "absent"

ToolUse   == [t |-> "obj", type |-> JStr("tool_use")]
TextItem  == [t |-> "obj", type |-> JStr("text")]
StrItem   == [t |-> "str", type |-> JAbsent]
NoContent == [t |-> "absent", items |-> <<>>]
Content(items) == [t |-> "list", items |-> items]
ContentOfType(ty) == [t |-> ty, items |-> <<>>]

NoMessage == [t |-> "absent", usage |-> NoUsage, model |-> JAbsent, content |-> NoContent]
Message(u, m, c) == [t |-> "obj", usage |-> u, model |-> m, content |-> c]
MessageOfType(ty) == [NoMessage EXCEPT !.t = ty]

(***************************************************************************)
(* A line of the source, as json.loads(line.strip()) leaves it:            *)
(* "malformed" raises json.JSONDecodeError, "scalar" decodes to a value    *)
(* that is no dict (42, null, a list, a string), "object" is a record.     *)
(***************************************************************************)
Entry(ty, ts, msg, err) ==
    [json |-> "object", type |-> ty, timestamp |-> ts, message |-> msg, error |-> err]
Malformed == [Entry(JAbsent, TsAbsent, NoMessage, JAbsent) EXCEPT !.json = "malformed"]
Scalar    == [Entry(JAbsent, TsAbsent, NoMessage, JAbsent) EXCEPT !.json = "scalar"]

(***************************************************************************)
(* A file path is the sequence of its "/"-separated parts, and a part the  *)
(* sequence of its "-"-separated pieces: "-Users-me-app" is                *)
(* <<"", "Users", "me", "app">>, "projects" is <<"projects">>.  A project  *)
(* label is a part.                                                        *)
(***************************************************************************)
StartsWithDash(part) == Len(part) >= 2 /\ part[1] = ""

\* _extract_project_name, lines 102-114.
ExtractProjectName(filepath) ==
    LET at == {i \in 1..Len(filepath) : filepath[i] = <<"projects">> /\ i + 1 <= Len(filepath)}
    IN IF at = {} THEN <<"unknown">>
       ELSE LET i == CHOOSE k \in at : \A j \in at : k <= j
                project_path == filepath[i + 1]
            IN IF StartsWithDash(project_path)
               THEN <<project_path[Len(project_path)]>>
               ELSE project_path

(***************************************************************************)
(* parse_jsonl_file: the stats dict.  parse_error "" is the key not set;   *)
(* otherwise it names the exception caught by the outer handler.           *)
(* models_used is kept as the set; list(set) only fixes an arbitrary order.*)
(***************************************************************************)
NewStats(filepath) ==
    [file |-> filepath, project |-> ExtractProjectName(filepath),
     input_tokens |-> 0, output_tokens |-> 0, cache_read_tokens |-> 0,
     cache_write_tokens |-> 0, messages_count |-> 0, tool_calls |-> 0,
     models_used |-> {}, start_time |-> NoneTime, end_time |-> NoneTime,
     errors |-> 0, parse_error |-> ""]

\* The outcome of a block of statements: the stats as the block left them and
\* the exception that ended it ("" when it ran to its end).
Ok(st)        == [stats |-> st, raised |-> ""]
Raise(st, ex) == [stats |-> st, raised |-> ex]

\* _process_entry, lines 121-129: the timestamp block.  Any exception in it is
\* swallowed by the bare except; an assignment made before it stays.
UpdateTimes(ts, st) ==
    IF ~TsTruthy(ts) THEN st
    ELSE LET d == ParseTimestamp(ts) IN
         IF d.kind = "none" THEN st
         ELSE IF st.start_time.kind # "none" /\ ~Comparable(d, st.start_time) THEN st
         ELSE LET s1 == IF st.start_time.kind = "none" \/ DtLess(d, st.start_time)
                        THEN [st EXCEPT !.start_time = d] ELSE st
              IN IF s1.end_time.kind # "none" /\ ~Comparable(d, s1.end_time) THEN s1
                 ELSE IF s1.end_time.kind = "none" \/ DtLess(s1.end_time, d)
                      THEN [s1 EXCEPT !.end_time = d] ELSE s1

\* stats[k] += usage.get(key, 0): None or a string cannot be added to an int.
AddUsage(st, k, v) ==
    IF v.t = "absent" THEN Ok(st)
    ELSE IF v.t = "int" THEN Ok([st EXCEPT ![k] = @ + v.n])
    ELSE Raise(st, "TypeError")

\* _process_entry, lines 140-144: the four additions, in order; the first that
\* raises ends the block with the earlier ones made.
AddAllUsage(usage, st) ==
    LET r1 == AddUsage(st, "input_tokens", usage.input_tokens) IN
    IF r1.raised # "" THEN r1 ELSE
    LET r2 == AddUsage(r1.stats, "output_tokens", usage.output_tokens) IN
    IF r2.raised # "" THEN r2 ELSE
    LET r3 == AddUsage(r2.stats, "cache_read_tokens", usage.cache_read_input_tokens) IN
    IF r3.raised # "" THEN r3 ELSE
    AddUsage(r3.stats, "cache_write_tokens", usage.cache_creation_input_tokens)

\* The number of tool_use items of a content list (lines 152-154).
RECURSIVE CountToolUse(_)
CountToolUse(items) ==
    IF items = <<>> THEN 0
    ELSE (IF Head(items).t = "obj" /\ Head(items).type = JStr("tool_use") THEN 1 ELSE 0)
         + CountToolUse(Tail(items))

\* _process_entry, lines 137-154: the assistant branch.
ProcessAssistant(message, st) ==
    IF message.t = "absent" THEN Ok(st)                    \* {}: no usage, no model, no content
    ELSE IF message.t # "obj" THEN Raise(st, "AttributeError")   \* message.get
    ELSE
    LET usage == message.usage
        r1 == IF usage.t \in {"absent", "null"} THEN Ok(st)
              ELSE IF usage.t # "obj" THEN Raise(st, "AttributeError")   \* usage.get
              ELSE IF ~UsageHasKey(usage) THEN Ok(st)
              ELSE AddAllUsage(usage, st)
    IN IF r1.raised # "" THEN r1 ELSE
    LET s2 == IF Truthy(message.model)
              THEN [r1.stats EXCEPT !.models_used = @ \cup {message.model.s}]
              ELSE r1.stats
        content == message.content
    IN IF content.t \in {"null", "int"} THEN Raise(s2, "TypeError")   \* not iterable
       ELSE IF content.t = "list"
            THEN Ok([s2 EXCEPT !.tool_calls = @ + CountToolUse(content.items)])
            ELSE Ok(s2)                                    \* absent, or a string: no dict item

\* entry.get("type", "")
EntryType(entry) == IF entry.type.t = "absent" THEN JStr("") ELSE entry.type

\* "error" in s.lower(), for the type strings of the model.
LowerContainsError(s) == s \in {"error", "Error", "tool_error", "API_ERROR"}

\* _process_entry, lines 116-158.
ProcessEntry(entry, st) ==
    IF entry.json # "object" THEN Raise(st, "AttributeError")     \* entry.get
    ELSE
    LET entry_type == EntryType(entry)
        s1 == UpdateTimes(entry.timestamp, st)
        s2 == IF entry_type = JStr("user")
              THEN [s1 EXCEPT !.messages_count = @ + 1] ELSE s1
        r3 == IF entry_type = JStr("assistant")
              THEN ProcessAssistant(entry.message, s2) ELSE Ok(s2)
    IN IF r3.raised # "" THEN r3
       ELSE IF entry_type.t # "str" THEN Raise(r3.stats, "AttributeError")   \* .lower()
       ELSE IF LowerContainsError(entry_type.s) \/ Truthy(entry.error)
            THEN Ok([r3.stats EXCEPT !.errors = @ + 1])
            ELSE r3

\* LoopBody with the inner handler missing: a decode failure leaves the loop
\* like any other exception.
LoopBodyNoInnerHandler(line, st) ==
    IF line.json = "malformed" THEN Raise(st, "JSONDecodeError") ELSE ProcessEntry(line, st)

\* parse_jsonl_file, lines 91-95: the body of the for loop.  json.JSONDecodeError
\* is caught here and the loop continues; any other exception leaves the loop.
LoopBody(line, st) ==
    IF line.json = "malformed" THEN Ok(st) ELSE ProcessEntry(line, st)

\* parse_jsonl_file, lines 88-100, as a function of the source.
RECURSIVE ParseLines(_, _)
ParseLines(ls, st) ==
    IF ls = <<>> THEN st
    ELSE LET r == LoopBody(Head(ls), st) IN
         IF r.raised # "" THEN [r.stats EXCEPT !.parse_error = r.raised]
         ELSE ParseLines(Tail(ls), r.stats)

ParseFile(filepath, canOpen, ls) ==
    IF canOpen THEN ParseLines(ls, NewStats(filepath))
    ELSE [NewStats(filepath) EXCEPT !.parse_error = "OSError"]

(***************************************************************************)
(* The lines the sources of the model are made of.                         *)
(***************************************************************************)
LUser        == Entry(JStr("user"), TsZ(10), NoMessage, JAbsent)
LUserNaive   == Entry(JStr("user"), TsNaive(5), NoMessage, JAbsent)
LAssistant   == Entry(JStr("assistant"), TsZ(20),
                      Message(Usage(JInt(3), JInt(2), JInt(1), JAbsent), JStr("m1"),
                              Content(<<ToolUse, TextItem, StrItem, ToolUse>>)), JAbsent)
LNullOutput  == Entry(JStr("assistant"), TsAbsent,
                      Message(Usage(JInt(1), JNull, JInt(1), JInt(1)), JStr("m2"), NoContent),
                      JAbsent)
LNullType    == Entry(JNull, TsZ(3), NoMessage, JAbsent)
LNullMessage == Entry(JStr("assistant"), TsEmpty, MessageOfType("null"), JAbsent)
LToolError   == Entry(JStr("tool_error"), TsGarbage, NoMessage, JAbsent)
LSystem      == Entry(JStr("system"), TsOffset(12, 5), NoMessage, JStr("boom"))
LBareAssist  == Entry(JStr("assistant"), TsInt, NoMessage, JAbsent)
LNullContent == Entry(JStr("assistant"), TsNull,
                      Message(UsageOfType("obj"), JStr("m1"), ContentOfType("null")), JAbsent)
LNoType      == Entry(JAbsent, TsZ(1), Message(Usage(JInt(9), JAbsent, JAbsent, JAbsent),
                                               JStr("m9"), Content(<<ToolUse>>)), JAbsent)

\* A usage object with a negative number: json.loads accepts it.
LNegative    == Entry(JStr("assistant"), TsAbsent,
                      Message(Usage(JInt(2), JInt(-4), JAbsent, JInt(-1)), JAbsent, NoContent),
                      JAbsent)

LinePool ==
    {Malformed, Scalar, LUser, LUserNaive, LAssistant, LNullOutput, LNullType,
     LNullMessage, LToolError, LSystem, LBareAssist, LNullContent, LNoType, LNegative}

SeqsUpTo(S, n) == UNION {[1..k -> S] : k \in 0..n}

(***************************************************************************)
(* Values the variables of the operations not running hold.                *)
(***************************************************************************)
\* No aggregation view was called yet.
NoView == [op |-> "none", days |-> 0, raised |-> "", value |-> <<>>]

IdleParse == openable = TRUE /\ lines = <<>> /\ pos = 0 /\ stats = NewStats(<<>>)
IdleAgg   == files = <<>> /\ sessions = <<>> /\ view = NoView
IdleHist  == hfile0 = [kind |-> "missing"] /\ hfile = [kind |-> "missing"]
             /\ hdata = [t |-> "unset"] /\ hlast = [op |-> "none"] /\ clock = 0
IdleCost  == bundle = <<>> /\ model_key = "" /\ cost = [op |-> "none"]

(***************************************************************************)
(* parse_jsonl_file as a process: open, one loop iteration per step, return*)
(***************************************************************************)
ParsedPath == <<<<"">>, <<"home">>, <<".claude">>, <<"projects">>,
                <<"", "Users", "me", "app">>, <<"session.jsonl">>>>

InitParse ==
    /\ pc = "open"
    /\ openable \in BOOLEAN
    /\ lines \in SeqsUpTo(LinePool, MaxLines)
    /\ (~openable => lines = <<>>)
    /\ pos = 0
    /\ stats = NewStats(ParsedPath)
    /\ IdleAgg /\ IdleHist /\ IdleCost

\* line 89: open(filepath) succeeds.
Open ==
    /\ pc = "open" /\ openable
    /\ pc' = "read"
    /\ UNCHANGED <<parseVars, aggVars, histVars, costVars>>

\* lines 96-97: open(filepath) raises; the outer handler records it.
OpenFails ==
    /\ pc = "open" /\ ~openable
    /\ stats' = [stats EXCEPT !.parse_error = "OSError"]
    /\ pc' = "done"
    /\ UNCHANGED <<openable, lines, pos, aggVars, histVars, costVars>>

\* lines 90-95: one iteration of the loop that ends normally (the entry was
\* processed, or the line failed to decode and was skipped).
ReadLine ==
    /\ pc = "read" /\ pos < Len(lines)
    /\ LET r == LoopBody(lines[pos + 1], stats) IN
         /\ r.raised = ""
         /\ stats' = r.stats
    /\ pos' = pos + 1
    /\ UNCHANGED <<pc, openable, lines, aggVars, histVars, costVars>>

\* lines 96-97: an iteration raises something other than JSONDecodeError; the
\* outer handler records it and the remaining lines are not read.
Abort ==
    /\ pc = "read" /\ pos < Len(lines)
    /\ LET r == LoopBody(lines[pos + 1], stats) IN
         /\ r.raised # ""
         /\ stats' = [r.stats EXCEPT !.parse_error = r.raised]
    /\ pos' = pos + 1
    /\ pc' = "done"
    /\ UNCHANGED <<openable, lines, aggVars, histVars, costVars>>

\* lines 99-100: the loop is exhausted; the stats are returned.
Finish ==
    /\ pc = "read" /\ pos = Len(lines)
    /\ pc' = "done"
    /\ UNCHANGED <<parseVars, aggVars, histVars, costVars>>

NextParse == Open \/ OpenFails \/ ReadLine \/ Abort \/ Finish

SpecParse == InitParse /\ [][NextParse]_vars

(***************************************************************************)
(* Properties of parse_jsonl_file.                                         *)
(***************************************************************************)
NotMalformed(l) == l.json # "malformed"
IsObject(l)     == l.json = "object"

RECURSIVE SumSeq(_)
SumSeq(ns) == IF ns = <<>> THEN 0 ELSE Head(ns) + SumSeq(Tail(ns))

\* C1: lines that fail JSON decoding change nothing: at every point of the loop
\* the stats are those of parsing the consumed lines with the undecodable ones
\* removed, and the returned stats (parse_error or its absence included) are
\* those of the whole source with the undecodable lines removed.
C1_MalformedLinesIgnored ==
    /\ pc \in {"read", "done"} =>
         stats = ParseFile(stats.file, openable,
                           SelectSeq(SubSeq(lines, 1, pos), NotMalformed))
    /\ pc = "done" => stats = ParseFile(stats.file, openable, SelectSeq(lines, NotMalformed))

\* C1 witness: a returned parse in which a counted assistant record follows an
\* undecodable line.
C1_Witness ==
    /\ pc = "done" /\ stats.parse_error = ""
    /\ \E i, j \in 1..Len(lines) :
         i < j /\ lines[i] = Malformed /\ lines[j] = LAssistant
    /\ stats.input_tokens >= 3

\* What a record contributes according to the specification.
IsUser(r)      == r.type = JStr("user")
IsAssistant(r) == r.type = JStr("assistant")
UsageField(r, k) ==
    IF IsAssistant(r) /\ r.message.t = "obj" /\ r.message.usage.t = "obj"
       /\ r.message.usage[k].t = "int"
    THEN r.message.usage[k].n ELSE 0
ToolUses(r) ==
    IF IsAssistant(r) /\ r.message.t = "obj" /\ r.message.content.t = "list"
    THEN CountToolUse(r.message.content.items) ELSE 0
ModelsOf(r) ==
    IF IsAssistant(r) /\ r.message.t = "obj" /\ Truthy(r.message.model)
    THEN {r.message.model.s} ELSE {}
SumUsage(ls, k) == SumSeq([i \in 1..Len(ls) |-> UsageField(ls[i], k)])
\* Every usage field present in the record is a number.
UsageFieldsAreNumbers(r) ==
    \A k \in {"input_tokens", "output_tokens", "cache_read_input_tokens",
              "cache_creation_input_tokens"} : r.message.usage[k].t \in {"absent", "int"}

\* C3: for a source of decoded JSON objects (whose usage fields, where present,
\* are numbers), the returned counters are the per-record contributions summed
\* over all the records: user records counted, usage fields of assistant
\* records summed, tool_use items counted, models collected.
C3_CountersSumOverAllRecords ==
    (pc = "done" /\ openable
     /\ \A i \in 1..Len(lines) : IsObject(lines[i]) /\ UsageFieldsAreNumbers(lines[i])) =>
        /\ stats.messages_count = Cardinality({i \in 1..Len(lines) : IsUser(lines[i])})
        /\ stats.input_tokens = SumUsage(lines, "input_tokens")
        /\ stats.output_tokens = SumUsage(lines, "output_tokens")
        /\ stats.cache_read_tokens = SumUsage(lines, "cache_read_input_tokens")
        /\ stats.cache_write_tokens = SumUsage(lines, "cache_creation_input_tokens")
        /\ stats.tool_calls = SumSeq([i \in 1..Len(lines) |-> ToolUses(lines[i])])
        /\ stats.models_used = UNION {ModelsOf(lines[i]) : i \in 1..Len(lines)}

\* C4: parse_error is set only when the source cannot be opened or read, and
\* stats that carry it have every counter at its default; no line sets it.
C4_ParseErrorOnlyForUnreadableSource ==
    (pc = "done" /\ stats.parse_error # "") =>
        /\ ~openable
        /\ stats = [NewStats(stats.file) EXCEPT !.parse_error = stats.parse_error]

\* The validly parsable timestamps of the records of a source.
ValidTimes(ls) ==
    {ParseTimestamp(ls[i].timestamp) :
        i \in {j \in 1..Len(ls) : IsObject(ls[j])
                                   /\ ParseTimestamp(ls[j].timestamp).kind # "none"}}
Unparsable(ts) == ts.t # "absent" /\ ParseTimestamp(ts).kind = "none"

\* C10: when the parse returns having read every record (no parse_error),
\* start_time is the earliest and end_time the latest of all the valid
\* timestamps of the records, both None exactly when there is none; a record
\* with an unparsable timestamp is processed like the record without it.
C10_StartEndAreMinMaxOfAllTimestamps ==
    /\ (pc = "done" /\ stats.parse_error = "") =>
         LET V == ValidTimes(lines) IN
         /\ (stats.start_time.kind = "none") <=> (V = {})
         /\ (stats.end_time.kind = "none") <=> (V = {})
         /\ V # {} =>
              /\ stats.start_time \in V /\ stats.end_time \in V
              /\ \A d \in V : /\ Comparable(d, stats.start_time)
                              /\ Comparable(d, stats.end_time)
                              /\ ~DtLess(d, stats.start_time)
                              /\ ~DtLess(stats.end_time, d)
    /\ (pc = "read" /\ pos < Len(lines) /\ IsObject(lines[pos + 1])
        /\ Unparsable(lines[pos + 1].timestamp)) =>
         LoopBody(lines[pos + 1], stats)
           = LoopBody([lines[pos + 1] EXCEPT !.timestamp = TsAbsent], stats)

Counters == {"input_tokens", "output_tokens", "cache_read_tokens", "cache_write_tokens",
             "messages_count", "tool_calls", "errors"}

\* C11: while the records of a source are processed, every counter
\* (input_tokens, output_tokens, cache_read_tokens, cache_write_tokens,
\* messages_count, tool_calls, errors) is non-negative after every record and
\* never decreases from one processed record to the next.
C11_CountersNonNegativeAndMonotonic ==
    [][\A k \in Counters : stats'[k] >= 0 /\ stats'[k] >= stats[k]]_vars

(***************************************************************************)
(* The aggregation views.  A session is the stats dict parse_jsonl_file    *)
(* returned for one file; a file is its path, whether it opens, its lines. *)
(***************************************************************************)
MaxFiles == 3
HoursPerDay == 24
DefaultDays == 7
TopN == 5

File(path, canOpen, ls) == [path |-> path, openable |-> canOpen, lines |-> ls]
ParseF(f) == ParseFile(f.path, f.openable, f.lines)
ParseAll(fs) == [i \in 1..Len(fs) |-> ParseF(fs[i])]

HasMessages(s) == s.messages_count > 0

\* get_all_sessions_stats, lines 160-172 (no limit): the parsed files that hold
\* at least one user message.
GetAllSessionsStats(fs) == SelectSeq(ParseAll(fs), HasMessages)

\* The returned value of a view, or the exception it raised.
Returned(op, days, v) == [op |-> op, days |-> days, raised |-> "", value |-> v]
Raised(op, days, ex)  == [op |-> op, days |-> days, raised |-> ex, value |-> <<>>]

\* get_aggregated_stats, lines 179-192.
NewAgg(n) ==
    [total_sessions |-> n, total_input_tokens |-> 0, total_output_tokens |-> 0,
     total_cache_read_tokens |-> 0, total_cache_write_tokens |-> 0,
     total_messages |-> 0, total_tool_calls |-> 0, total_errors |-> 0,
     projects |-> {}, models_used |-> {}, oldest_session |-> NoneTime,
     newest_session |-> NoneTime, total_tokens |-> 0]

\* get_aggregated_stats, lines 195-210: one iteration of the loop.
AggStep(agg, s) ==
    LET a1 == [agg EXCEPT
                 !.total_input_tokens = @ + s.input_tokens,
                 !.total_output_tokens = @ + s.output_tokens,
                 !.total_cache_read_tokens = @ + s.cache_read_tokens,
                 !.total_cache_write_tokens = @ + s.cache_write_tokens,
                 !.total_messages = @ + s.messages_count,
                 !.total_tool_calls = @ + s.tool_calls,
                 !.total_errors = @ + s.errors,
                 !.projects = @ \cup {s.project},
                 !.models_used = @ \cup s.models_used]
    IN IF s.start_time.kind # "none" /\ a1.oldest_session.kind # "none"
          /\ ~Comparable(s.start_time, a1.oldest_session)
       THEN Raise(a1, "TypeError")
       ELSE
       LET a2 == IF s.start_time.kind # "none"
                    /\ (a1.oldest_session.kind = "none"
                        \/ DtLess(s.start_time, a1.oldest_session))
                 THEN [a1 EXCEPT !.oldest_session = s.start_time] ELSE a1
       IN IF s.end_time.kind # "none" /\ a2.newest_session.kind # "none"
             /\ ~Comparable(s.end_time, a2.newest_session)
          THEN Raise(a2, "TypeError")
          ELSE IF s.end_time.kind # "none"
                  /\ (a2.newest_session.kind = "none"
                      \/ DtLess(a2.newest_session, s.end_time))
               THEN Ok([a2 EXCEPT !.newest_session = s.end_time]) ELSE Ok(a2)

RECURSIVE AggLoop(_, _)
AggLoop(ss, agg) ==
    IF ss = <<>> THEN Ok(agg)
    ELSE LET r == AggStep(agg, Head(ss)) IN
         IF r.raised # "" THEN r ELSE AggLoop(Tail(ss), r.stats)

\* get_aggregated_stats, lines 174-216, for a sessions argument that is not None.
GetAggregatedStats(ss) ==
    LET r == AggLoop(ss, NewAgg(Len(ss))) IN
    IF r.raised # "" THEN Raised("get_aggregated_stats", 0, r.raised)
    ELSE Returned("get_aggregated_stats", 0,
                  [r.stats EXCEPT !.total_tokens =
                       r.stats.total_input_tokens + r.stats.total_output_tokens])

\* strftime("%Y-%m-%d") of a datetime: the calendar day of its wall clock.
Day(d) == d.wall \div HoursPerDay

\* datetime.now().astimezone() - timedelta(days=days), line 241.
Cutoff(now, days) == Aware(now.wall - days * HoursPerDay, now.off)

\* daily[day] of the defaultdict, lines 242 and 247-249: the dict is kept as the
\* sequence of its items in insertion order.
AddToDay(daily, day, s) ==
    IF \E i \in 1..Len(daily) : daily[i].day = day
    THEN [i \in 1..Len(daily) |->
            IF daily[i].day = day
            THEN [daily[i] EXCEPT !.tokens = @ + s.input_tokens + s.output_tokens,
                                  !.messages = @ + s.messages_count,
                                  !.sessions = @ + 1]
            ELSE daily[i]]
    ELSE Append(daily, [day |-> day, tokens |-> s.input_tokens + s.output_tokens,
                        messages |-> s.messages_count, sessions |-> 1])

\* get_daily_stats, lines 244-249.
RECURSIVE DailyLoop(_, _, _)
DailyLoop(ss, cutoff, daily) ==
    IF ss = <<>> THEN Ok(daily)
    ELSE LET s == Head(ss) IN
         IF s.end_time.kind = "none" THEN DailyLoop(Tail(ss), cutoff, daily)
         ELSE IF ~Comparable(s.end_time, cutoff) THEN Raise(daily, "TypeError")
         ELSE IF DtLess(cutoff, s.end_time)
              THEN DailyLoop(Tail(ss), cutoff, AddToDay(daily, Day(s.end_time), s))
              ELSE DailyLoop(Tail(ss), cutoff, daily)

\* sorted(daily.items()), line 251: ascending by key (the keys are distinct).
RECURSIVE SortByDay(_)
SortByDay(items) ==
    IF items = <<>> THEN <<>>
    ELSE LET least == CHOOSE i \in 1..Len(items) :
                          \A j \in 1..Len(items) : items[i].day <= items[j].day
             rest == [k \in 1..(Len(items) - 1) |->
                          IF k < least THEN items[k] ELSE items[k + 1]]
         IN <<items[least]>> \o SortByDay(rest)

\* get_daily_stats, lines 236-251, for a sessions argument that is not None.
GetDailyStats(ss, days, now) ==
    LET r == DailyLoop(ss, Cutoff(now, days), <<>>) IN
    IF r.raised # "" THEN Raised("get_daily_stats", days, r.raised)
    ELSE Returned("get_daily_stats", days, SortByDay(r.stats))

\* main, lines 435-438: project_stats, kept as its items in insertion order.
AddToProject(ps, s) ==
    IF \E i \in 1..Len(ps) : ps[i].project = s.project
    THEN [i \in 1..Len(ps) |->
            IF ps[i].project = s.project
            THEN [ps[i] EXCEPT !.tokens = @ + s.input_tokens + s.output_tokens,
                               !.messages = @ + s.messages_count]
            ELSE ps[i]]
    ELSE Append(ps, [project |-> s.project, tokens |-> s.input_tokens + s.output_tokens,
                     messages |-> s.messages_count])

RECURSIVE ProjectStats(_, _)
ProjectStats(ss, ps) ==
    IF ss = <<>> THEN ps ELSE ProjectStats(Tail(ss), AddToProject(ps, Head(ss)))

\* InsertByTokens as an unstable descending sort would place the item: before
\* the items of equal key (what reversing an ascending sort gives).
InsertByTokensTiesReversed(sorted, x) ==
    LET n == Cardinality({i \in 1..Len(sorted) : sorted[i].tokens > x.tokens})
    IN SubSeq(sorted, 1, n) \o <<x>> \o SubSeq(sorted, n + 1, Len(sorted))

\* sorted(..., key=tokens, reverse=True), line 439: a stable sort; items of equal
\* key keep their order.  Each item goes behind the items whose key is not smaller.
InsertByTokens(sorted, x) ==
    LET n == Cardinality({i \in 1..Len(sorted) : sorted[i].tokens >= x.tokens})
    IN SubSeq(sorted, 1, n) \o <<x>> \o SubSeq(sorted, n + 1, Len(sorted))

RECURSIVE SortByTokensDesc(_, _)
SortByTokensDesc(items, sorted) ==
    IF items = <<>> THEN sorted
    ELSE SortByTokensDesc(Tail(items), InsertByTokens(sorted, Head(items)))

Take(items, n) == SubSeq(items, 1, IF Len(items) < n THEN Len(items) ELSE n)

\* main, lines 435-439: sorted_projects.
TopProjects(ss) ==
    Returned("top_projects", 0, Take(SortByTokensDesc(ProjectStats(ss, <<>>), <<>>), TopN))

(***************************************************************************)
(* The session files of the model.                                         *)
(***************************************************************************)
UserAt(ts) == Entry(JStr("user"), ts, NoMessage, JAbsent)
AssistAt(ts, i, o, m) ==
    Entry(JStr("assistant"), ts,
          Message(Usage(JInt(i), JInt(o), JAbsent, JAbsent), JStr(m), NoContent), JAbsent)
PathOf(token, name) ==
    <<<<"">>, <<"home">>, <<".claude">>, <<"projects">>, token, <<name>>>>
Dashed(label) == <<"", "Users", "me", label>>

\* datetime.now().astimezone() of the run: hour 240 at UTC+1.
Now == Aware(240, 1)

FRecent  == File(PathOf(Dashed("alpha"), "recent"), TRUE,
                 <<UserAt(TsZ(230)), AssistAt(TsZ(231), 3, 2, "m1")>>)
FSameDay == File(PathOf(<<"beta">>, "sameday"), TRUE,
                 <<UserAt(TsZ(216)), UserAt(TsZ(217)), AssistAt(TsZ(218), 1, 1, "m2")>>)
FOffset  == File(PathOf(Dashed("alpha"), "offset"), TRUE, <<UserAt(TsOffset(241, 5))>>)
FOld     == File(PathOf(<<"beta">>, "old"), TRUE, <<UserAt(TsZ(50))>>)
FEdge    == File(PathOf(<<"beta">>, "edge"), TRUE, <<UserAt(TsZ(71))>>)
FMid     == File(PathOf(Dashed("gamma"), "mid"), TRUE,
                 <<UserAt(TsZ(100)), AssistAt(TsZ(101), 2, 0, "m1")>>)
FNoTime  == File(PathOf(Dashed("gamma"), "notime"), TRUE,
                 <<UserAt(TsAbsent), AssistAt(TsAbsent, 7, 7, "m2")>>)
FNaive   == File(PathOf(<<"delta">>, "naive"), TRUE, <<UserAt(TsNaive(235))>>)
FEmpty   == File(PathOf(<<"delta">>, "empty"), TRUE, <<AssistAt(TsZ(232), 4, 4, "m3")>>)
FLocked  == File(PathOf(<<"delta">>, "locked"), FALSE, <<>>)

AggFiles == {FRecent, FSameDay, FOffset, FOld, FEdge, FMid, FNoTime, FNaive, FEmpty, FLocked}

InFiles(f) == \E i \in 1..Len(files) : files[i] = f

(***************************************************************************)
(* The aggregation views as operations: files are discovered, then one     *)
(* view is called, on the list the caller passes or on the default.        *)
(***************************************************************************)
InitAgg ==
    /\ pc = "discover"
    /\ files = <<>> /\ sessions = <<>> /\ view = NoView
    /\ IdleParse /\ IdleHist /\ IdleCost

\* find_jsonl_files, lines 65-69: one more file of the glob result.
Discover ==
    /\ pc = "discover" /\ Len(files) < MaxFiles
    /\ \E f \in AggFiles : ~InFiles(f) /\ files' = Append(files, f)
    /\ UNCHANGED <<pc, sessions, view, parseVars, histVars, costVars>>

\* get_aggregated_stats(sessions) on a list the caller parsed itself.
AggregateGiven ==
    /\ pc = "discover"
    /\ sessions' = ParseAll(files)
    /\ view' = GetAggregatedStats(sessions')
    /\ pc' = "returned"
    /\ UNCHANGED <<files, parseVars, histVars, costVars>>

\* get_aggregated_stats(), lines 176-177: sessions is None.
AggregateDefault ==
    /\ pc = "discover"
    /\ sessions' = GetAllSessionsStats(files)
    /\ view' = GetAggregatedStats(sessions')
    /\ pc' = "returned"
    /\ UNCHANGED <<files, parseVars, histVars, costVars>>

\* get_daily_stats(sessions, days) on a list the caller parsed itself.
DailyGiven ==
    /\ pc = "discover"
    /\ sessions' = ParseAll(files)
    /\ \E days \in {1, DefaultDays} :
         view' = GetDailyStats(sessions', days, Now)
    /\ pc' = "returned"
    /\ UNCHANGED <<files, parseVars, histVars, costVars>>

\* get_daily_stats(days=days), lines 238-239: sessions is None.
DailyDefault ==
    /\ pc = "discover"
    /\ sessions' = GetAllSessionsStats(files)
    /\ \E days \in {1, DefaultDays} :
         view' = GetDailyStats(sessions', days, Now)
    /\ pc' = "returned"
    /\ UNCHANGED <<files, parseVars, histVars, costVars>>

NextAgg == Discover \/ AggregateGiven \/ AggregateDefault \/ DailyGiven \/ DailyDefault

SpecAgg == InitAgg /\ [][NextAgg]_vars

(***************************************************************************)
(* Properties of the aggregation views.                                    *)
(***************************************************************************)
SumField(ss, k) == SumSeq([i \in 1..Len(ss) |-> ss[i][k]])
TimesOf(ss, k) == {ss[i][k] : i \in {j \in 1..Len(ss) : ss[j][k].kind # "none"}}

\* C2: get_aggregated_stats computes everything from the sessions with
\* messages_count > 0 only: the session count, every sum, the project and
\* model sets and the oldest/newest session.
C2_AggregateSkipsEmptySessions ==
    (view.op = "get_aggregated_stats" /\ view.raised = "") =>
        LET q == SelectSeq(sessions, HasMessages)
            a == view.value
        IN /\ a.total_sessions = Len(q)
           /\ a.total_input_tokens = SumField(q, "input_tokens")
           /\ a.total_output_tokens = SumField(q, "output_tokens")
           /\ a.total_cache_read_tokens = SumField(q, "cache_read_tokens")
           /\ a.total_cache_write_tokens = SumField(q, "cache_write_tokens")
           /\ a.total_messages = SumField(q, "messages_count")
           /\ a.total_tool_calls = SumField(q, "tool_calls")
           /\ a.total_errors = SumField(q, "errors")
           /\ a.projects = {q[i].project : i \in 1..Len(q)}
           /\ a.models_used = UNION {q[i].models_used : i \in 1..Len(q)}
           /\ (a.oldest_session.kind = "none") <=> (TimesOf(q, "start_time") = {})
           /\ (a.newest_session.kind = "none") <=> (TimesOf(q, "end_time") = {})
           /\ \A d \in TimesOf(q, "start_time") :
                a.oldest_session \in TimesOf(q, "start_time") /\ ~DtLess(d, a.oldest_session)
           /\ \A d \in TimesOf(q, "end_time") :
                a.newest_session \in TimesOf(q, "end_time") /\ ~DtLess(a.newest_session, d)

\* The sessions get_daily_stats is to count: end_time present and strictly
\* after now minus the window.
Contributes(s, days) ==
    s.end_time.kind # "none" /\ DtLess(Cutoff(Now, days), s.end_time)
SumOnDay(ss, days, day, k) ==
    SumSeq([i \in 1..Len(ss) |->
              IF Contributes(ss[i], days) /\ Day(ss[i].end_time) = day THEN ss[i][k] ELSE 0])

\* The buckets of a returned get_daily_stats are as specified.
DailyBucketsAsSpecified ==
    LET b == view.value
        days == view.days
    IN /\ \A i, j \in 1..Len(b) : i < j => b[i].day < b[j].day
       /\ {b[i].day : i \in 1..Len(b)}
            = {Day(sessions[i].end_time) :
                 i \in {j \in 1..Len(sessions) : Contributes(sessions[j], days)}}
       /\ \A i \in 1..Len(b) :
            /\ b[i].tokens = SumOnDay(sessions, days, b[i].day, "input_tokens")
                             + SumOnDay(sessions, days, b[i].day, "output_tokens")
            /\ b[i].messages = SumOnDay(sessions, days, b[i].day, "messages_count")
            /\ b[i].sessions = Cardinality({j \in 1..Len(sessions) :
                                   Contributes(sessions[j], days)
                                   /\ Day(sessions[j].end_time) = b[i].day})

\* C7: get_daily_stats returns, for any list of sessions and any window, without
\* failing, and its buckets count exactly the sessions whose end_time is present
\* and strictly after the cutoff, each in the bucket of its end_time's calendar
\* date, the keys ascending.
C7_DailyStatsReturnsBuckets ==
    view.op = "get_daily_stats" => (view.raised = "" /\ DailyBucketsAsSpecified)

\* Whenever get_daily_stats does return, its buckets are as specified.
DailyBucketsWhenReturned ==
    (view.op = "get_daily_stats" /\ view.raised = "") => DailyBucketsAsSpecified

\* Whenever get_aggregated_stats returns, it aggregated the list it was given.
AggregateOfGivenList ==
    (view.op = "get_aggregated_stats" /\ view.raised = "") =>
        /\ view.value.total_sessions = Len(sessions)
        /\ view.value.total_input_tokens = SumField(sessions, "input_tokens")
        /\ view.value.total_messages = SumField(sessions, "messages_count")

(***************************************************************************)
(* The top-projects table of main, over session files of six projects.     *)
(***************************************************************************)
MaxTopFiles == 7

TopFile(token, name, nUser, i, o) ==
    File(PathOf(token, name), TRUE,
         [k \in 1..nUser |-> UserAt(TsZ(200 + k))] \o <<AssistAt(TsZ(210), i, o, "m1")>>)

TopFiles ==
    {TopFile(Dashed("a"), "t1", 1, 2, 0), TopFile(<<"b">>, "t2", 2, 1, 1),
     TopFile(Dashed("c"), "t3", 1, 3, 0), TopFile(<<"d">>, "t4", 1, 0, 0),
     TopFile(Dashed("e"), "t5", 3, 0, 1), TopFile(<<"f">>, "t6", 1, 1, 0),
     TopFile(<<"d">>, "t7", 2, 2, 1)}

InitTop ==
    /\ pc = "discover"
    /\ files = <<>> /\ sessions = <<>> /\ view = NoView
    /\ IdleParse /\ IdleHist /\ IdleCost

\* find_jsonl_files, lines 65-69: one more file of the glob result.
DiscoverTop ==
    /\ pc = "discover" /\ Len(files) < MaxTopFiles
    /\ \E f \in TopFiles : ~InFiles(f) /\ files' = Append(files, f)
    /\ UNCHANGED <<pc, sessions, view, parseVars, histVars, costVars>>

\* main, lines 402 and 435-439: the table over get_all_sessions_stats().
TopOfMain ==
    /\ pc = "discover"
    /\ sessions' = GetAllSessionsStats(files)
    /\ view' = TopProjects(sessions')
    /\ pc' = "returned"
    /\ UNCHANGED <<files, parseVars, histVars, costVars>>

NextTop == DiscoverTop \/ TopOfMain

SpecTop == InitTop /\ [][NextTop]_vars

\* What the specification says of a project of the sessions list.
ProjectsOf(ss) == {ss[i].project : i \in 1..Len(ss)}
TokensOf(ss, p) ==
    SumSeq([i \in 1..Len(ss) |->
              IF ss[i].project = p THEN ss[i].input_tokens + ss[i].output_tokens ELSE 0])
MessagesOf(ss, p) ==
    SumSeq([i \in 1..Len(ss) |-> IF ss[i].project = p THEN ss[i].messages_count ELSE 0])
FirstSeen(ss, p) ==
    CHOOSE i \in 1..Len(ss) : ss[i].project = p /\ \A j \in 1..(i - 1) : ss[j].project # p
\* p ranks before q: more tokens, or as many and discovered earlier.
RanksBefore(ss, p, q) ==
    \/ TokensOf(ss, p) > TokensOf(ss, q)
    \/ TokensOf(ss, p) = TokensOf(ss, q) /\ FirstSeen(ss, p) < FirstSeen(ss, q)

\* C8: the top-projects table holds one row per project with its summed
\* input+output tokens and messages, rows descending by tokens, equal token
\* sums in first-discovery order, and is the first 5 rows of that ordering.
C8_TopProjectsTable ==
    view.op = "top_projects" =>
        LET r == view.value
            P == ProjectsOf(sessions)
            shown == {r[i].project : i \in 1..Len(r)}
        IN /\ Len(r) = IF Cardinality(P) < 5 THEN Cardinality(P) ELSE 5
           /\ shown \subseteq P
           /\ \A i \in 1..Len(r) :
                /\ r[i].tokens = TokensOf(sessions, r[i].project)
                /\ r[i].messages = MessagesOf(sessions, r[i].project)
           /\ \A i, j \in 1..Len(r) :
                i < j => RanksBefore(sessions, r[i].project, r[j].project)
           /\ \A p \in P \ shown : \A q \in shown : RanksBefore(sessions, q, p)

\* C8 witness: seven sessions of six projects, five rows, two neighbouring rows
\* with equal tokens.
C8_Witness ==
    /\ view.op = "top_projects"
    /\ Len(sessions) = 7
    /\ Cardinality(ProjectsOf(sessions)) = 6
    /\ Len(view.value) = 5
    /\ \E i \in 1..4 : view.value[i].tokens = view.value[i + 1].tokens

(***************************************************************************)
(* calculate_equivalent_cost.  Rates are in twentieths of a dollar per      *)
(* million tokens (every rate of PRICING is a multiple of $0.05) and a     *)
(* cost is the integer c standing for c / CostUnit dollars, so that        *)
(* (tokens / 1_000_000) * rate is tokens * (rate in twentieths) exactly.   *)
(***************************************************************************)
MaxTokens == 2
Million == 1000000
CostUnit == 20 * Million

Rates(i, o, cr, cw) == [input |-> i, output |-> o, cache_read |-> cr, cache_write |-> cw]

\* PRICING, lines 48-54.
PRICING ==
    [m \in {"claude-opus-4-5-20251101", "claude-sonnet-4-20250514", "claude-haiku-4-5",
            "claude-opus-4-1", "default"} |->
        CASE m = "claude-opus-4-5-20251101" -> Rates(100, 500, 10, 125)
          [] m = "claude-sonnet-4-20250514" -> Rates(60, 300, 6, 75)
          [] m = "claude-haiku-4-5"         -> Rates(20, 100, 2, 25)
          [] m = "claude-opus-4-1"          -> Rates(300, 1500, 30, 375)
          [] m = "default"                  -> Rates(60, 300, 6, 75)]

\* PRICING.get falling back on the first entry of the table instead of "default".
PricingForFirstEntry(model) ==
    IF model \in DOMAIN PRICING THEN PRICING[model] ELSE PRICING["claude-opus-4-5-20251101"]

\* PRICING.get(model, PRICING["default"]), line 220.
PricingFor(model) ==
    IF model \in DOMAIN PRICING THEN PRICING[model] ELSE PRICING["default"]

\* stats.get(key, 0)
GetOr0(d, key) == IF key \in DOMAIN d THEN d[key] ELSE 0

\* calculate_equivalent_cost, lines 218-234.
CalculateEquivalentCost(st, model) ==
    LET pricing == PricingFor(model)
        input_cost == GetOr0(st, "total_input_tokens") * pricing.input
        output_cost == GetOr0(st, "total_output_tokens") * pricing.output
        cache_read_cost == GetOr0(st, "total_cache_read_tokens") * pricing.cache_read
        cache_write_cost == GetOr0(st, "total_cache_write_tokens") * pricing.cache_write
    IN [op |-> "calculate_equivalent_cost",
        input_cost |-> input_cost, output_cost |-> output_cost,
        cache_read_cost |-> cache_read_cost, cache_write_cost |-> cache_write_cost,
        total_cost |-> input_cost + output_cost + cache_read_cost + cache_write_cost,
        model_pricing |-> model]

TokenKeys == {"total_input_tokens", "total_output_tokens", "total_cache_read_tokens",
              "total_cache_write_tokens"}
\* The token bundles: every small count for every key, dicts that lack some
\* keys, and dicts with a million tokens under at most two keys (the products
\* of the model stay below 2^31).
Bundles ==
    [TokenKeys -> 0..MaxTokens]
    \cup UNION {[K -> {1}] : K \in SUBSET TokenKeys}
    \cup UNION {[K -> {Million}] : K \in {L \in SUBSET TokenKeys : Cardinality(L) <= 2}}
ModelKeys == DOMAIN PRICING \cup {"m1", "claude-sonnet-4-5"}

InitCost ==
    /\ pc = "call"
    /\ bundle \in Bundles
    /\ model_key \in ModelKeys
    /\ cost = [op |-> "none"]
    /\ IdleParse /\ IdleAgg /\ IdleHist

Calculate ==
    /\ pc = "call"
    /\ cost' = CalculateEquivalentCost(bundle, model_key)
    /\ pc' = "returned"
    /\ UNCHANGED <<bundle, model_key, parseVars, aggVars, histVars>>

NextCost == Calculate

SpecCost == InitCost /\ [][NextCost]_vars

\* C9: for every bundle of non-negative counts and every model key the call
\* returns four components, each (count / 1,000,000) * rate with the rates of
\* the model's PRICING entry, or of "default" when the key is not in the table;
\* total_cost is their sum; none is negative.
C9_CostBreakdown ==
    pc = "returned" =>
        LET rate == IF model_key \in DOMAIN PRICING THEN PRICING[model_key]
                    ELSE PRICING["default"]
            n(k) == IF k \in DOMAIN bundle THEN bundle[k] ELSE 0
        IN /\ cost.input_cost = n("total_input_tokens") * rate.input
           /\ cost.output_cost = n("total_output_tokens") * rate.output
           /\ cost.cache_read_cost = n("total_cache_read_tokens") * rate.cache_read
           /\ cost.cache_write_cost = n("total_cache_write_tokens") * rate.cache_write
           /\ cost.total_cost = cost.input_cost + cost.output_cost
                                + cost.cache_read_cost + cost.cache_write_cost
           /\ cost.input_cost >= 0 /\ cost.output_cost >= 0
           /\ cost.cache_read_cost >= 0 /\ cost.cache_write_cost >= 0
           /\ cost.total_cost >= 0

\* C9 witness: a million input and a million output tokens under a model key the
\* table does not hold cost $3.00 + $15.00 = $18.00.
C9_Witness ==
    /\ pc = "returned"
    /\ model_key = "m1"
    /\ bundle = [k \in {"total_input_tokens", "total_output_tokens"} |-> Million]
    /\ cost.input_cost = 3 * CostUnit /\ cost.output_cost = 15 * CostUnit
    /\ cost.cache_read_cost = 0 /\ cost.cache_write_cost = 0
    /\ cost.total_cost = 18 * CostUnit

(***************************************************************************)
(* UsageHistory.  self.data is a Python value: t is its type, and when it  *)
(* is a dict each of the keys "snapshots" and "api_calls" is a slot        *)
(* [t, items]: absent, a list with its items, or another JSON value.  A    *)
(* value of a snapshot's stats is [t, n]: an int or a string (JSON-native) *)
(* or a datetime, which json.dump writes through default=str.  Timestamps  *)
(* are the isoformat strings of the clock, kept as the clock's number.     *)
(***************************************************************************)
MaxCalls == 3
SnapshotCap == 100
ApiCallCap == 1000

NoSlot       == [t |-> "absent", items |-> <<>>]
ListSlot(xs) == [t |-> "list", items |-> xs]
IntSlot      == [t |-> "int", items |-> <<>>]
Dict(sn, ac) == [t |-> "dict", snapshots |-> sn, api_calls |-> ac]
JsonList     == [t |-> "list", snapshots |-> NoSlot, api_calls |-> NoSlot]

\* _load, line 269: the empty store.
EmptyStore == Dict(ListSlot(<<>>), ListSlot(<<>>))

PyInt(k)      == [t |-> "int", n |-> k]
PyStr(k)      == [t |-> "str", n |-> k]
PyDatetime(k) == [t |-> "datetime", n |-> k]

\* add_snapshot, lines 278-281, and add_api_call, lines 289-295: the entry.
Snapshot(now, st) == [timestamp |-> now, stats |-> st]
ApiCall(now, tin, tout, model, c) ==
    [timestamp |-> now, tokens_in |-> tin, tokens_out |-> tout, model |-> model, cost |-> c]

\* json.dump(..., default=str), line 274, of a value, of a list and of
\* self.data: what json.load reads back from the file written.
DumpValue(v) == IF v.t = "datetime" THEN PyStr(v.n) ELSE v
DumpSnapshots(xs) == [i \in 1..Len(xs) |-> [xs[i] EXCEPT !.stats = DumpValue(@)]]
Dump(data) ==
    IF data.t = "dict" /\ data.snapshots.t = "list"
    THEN [data EXCEPT !.snapshots.items = DumpSnapshots(@)]
    ELSE data

\* The persisted file: missing, unreadable (open raises), garbage (json.load
\* raises) or a JSON document.
HFile(kind, doc) == [kind |-> kind, doc |-> doc]

\* _load, lines 261-269.
Load(file) == IF file.kind = "json" THEN file.doc ELSE EmptyStore

\* save, lines 271-274.
Save(data) == HFile("json", Dump(data))

\* items[-n:] with the first n items kept instead of the last.
FirstN(items, n) == IF Len(items) > n THEN SubSeq(items, 1, n) ELSE items

\* items[-n:], lines 284 and 297.
LastN(items, n) ==
    IF Len(items) > n THEN SubSeq(items, Len(items) - n + 1, Len(items)) ELSE items

\* self.data[key].append(entry); self.data[key] = self.data[key][-cap:],
\* lines 282-284 and 296-297: the new data, or the exception raised with the
\* data untouched.
AppendTo(data, key, entry, cap) ==
    IF data.t # "dict" THEN Raise(data, "TypeError")
    ELSE IF data[key].t = "absent" THEN Raise(data, "KeyError")
    ELSE IF data[key].t # "list" THEN Raise(data, "AttributeError")
    ELSE Ok([data EXCEPT ![key].items = LastN(Append(@, entry), cap)])

\* get_api_totals, lines 300-308.
NoTotals == [tokens_in |-> 0, tokens_out |-> 0, cost |-> 0, calls |-> 0]
AddCall(totals, call) ==
    [tokens_in |-> totals.tokens_in + call.tokens_in,
     tokens_out |-> totals.tokens_out + call.tokens_out,
     cost |-> totals.cost + call.cost,
     calls |-> totals.calls + 1]
AddTotals(a, b) ==
    [tokens_in |-> a.tokens_in + b.tokens_in, tokens_out |-> a.tokens_out + b.tokens_out,
     cost |-> a.cost + b.cost, calls |-> a.calls + b.calls]
\* The loop of lines 303-307 over calls[lo..hi], summed by halves to keep the
\* evaluation shallow on a list of a thousand calls.
RECURSIVE TotalsLoop(_, _, _)
TotalsLoop(calls, lo, hi) ==
    IF lo > hi THEN NoTotals
    ELSE IF lo = hi THEN AddCall(NoTotals, calls[lo])
    ELSE LET mid == (lo + hi) \div 2
         IN AddTotals(TotalsLoop(calls, lo, mid), TotalsLoop(calls, mid + 1, hi))
GetApiTotals(data) ==
    IF data.t # "dict" THEN Raise(NoTotals, "TypeError")
    ELSE IF data.api_calls.t = "absent" THEN Raise(NoTotals, "KeyError")
    ELSE IF data.api_calls.t # "list" THEN Raise(NoTotals, "TypeError")
    ELSE Ok(TotalsLoop(data.api_calls.items, 1, Len(data.api_calls.items)))

\* The last call on the store: its name, the exception it raised, the entry it
\* appended, self.data before it, and the totals it returned.
Last(op, raised, entry, before, totals) ==
    [op |-> op, raised |-> raised, entry |-> entry, before |-> before, totals |-> totals]

(***************************************************************************)
(* The history files of the model: none, unusable ones, JSON documents of  *)
(* another shape, and files written by earlier runs, up to the caps.       *)
(***************************************************************************)
\* This run's clock starts after every timestamp written by earlier runs.
ClockStart == ApiCallCap + 1
OldSnapshots(n) == [i \in 1..n |-> Snapshot(i, PyInt(i))]
OldApiCalls(n)  == [i \in 1..n |-> ApiCall(i, 10, 1, "claude-sonnet-4-20250514", 45)]
WrittenBefore(ns, na) == HFile("json", Dict(ListSlot(OldSnapshots(ns)), ListSlot(OldApiCalls(na))))

HistoryFiles ==
    {HFile("missing", EmptyStore), HFile("unreadable", EmptyStore),
     HFile("garbage", EmptyStore),
     HFile("json", Dict(NoSlot, NoSlot)),                \* {}
     HFile("json", JsonList),                            \* []
     HFile("json", Dict(ListSlot(<<>>), NoSlot)),        \* {"snapshots": []}
     HFile("json", Dict(IntSlot, ListSlot(<<>>))),       \* {"snapshots": 5, "api_calls": []}
     WrittenBefore(0, 0), WrittenBefore(2, 3),
     WrittenBefore(SnapshotCap - 1, ApiCallCap - 1),
     WrittenBefore(SnapshotCap, ApiCallCap)}

InitHist ==
    /\ pc = "start"
    /\ hfile0 \in HistoryFiles
    /\ hfile = hfile0
    /\ hdata = [t |-> "unset"]
    /\ hlast = Last("none", "", <<>>, <<>>, NoTotals)
    /\ clock = ClockStart
    /\ IdleParse /\ IdleAgg /\ IdleCost

\* UsageHistory.__init__, lines 257-259.
Construct ==
    /\ pc = "start"
    /\ hdata' = Load(hfile)
    /\ hlast' = Last("construct", "", <<>>, <<>>, NoTotals)
    /\ pc' = "ready"
    /\ UNCHANGED <<hfile0, hfile, clock, parseVars, aggVars, costVars>>

\* add_snapshot, lines 276-285.
AddSnapshot ==
    /\ pc = "ready" /\ clock < ClockStart + MaxCalls
    /\ \E st \in {PyInt(7), PyDatetime(3)} :
         LET entry == Snapshot(clock, st)
             r == AppendTo(hdata, "snapshots", entry, SnapshotCap)
         IN /\ hdata' = r.stats
            /\ hfile' = IF r.raised = "" THEN Save(r.stats) ELSE hfile
            /\ hlast' = Last("add_snapshot", r.raised, entry, hdata, NoTotals)
    /\ clock' = clock + 1
    /\ UNCHANGED <<pc, hfile0, parseVars, aggVars, costVars>>

\* add_api_call, lines 287-298.
AddApiCall ==
    /\ pc = "ready" /\ clock < ClockStart + MaxCalls
    /\ LET entry == ApiCall(clock, 12, 3, "claude-sonnet-4-20250514", 54)
           r == AppendTo(hdata, "api_calls", entry, ApiCallCap)
       IN /\ hdata' = r.stats
          /\ hfile' = IF r.raised = "" THEN Save(r.stats) ELSE hfile
          /\ hlast' = Last("add_api_call", r.raised, entry, hdata, NoTotals)
    /\ clock' = clock + 1
    /\ UNCHANGED <<pc, hfile0, parseVars, aggVars, costVars>>

\* get_api_totals, lines 300-308.
ApiTotals ==
    /\ pc = "ready" /\ clock < ClockStart + MaxCalls
    /\ LET r == GetApiTotals(hdata)
       IN hlast' = Last("get_api_totals", r.raised, <<>>, hdata, r.stats)
    /\ clock' = clock + 1
    /\ UNCHANGED <<pc, hfile0, hfile, hdata, parseVars, aggVars, costVars>>

\* The next run of the program: UsageHistory() reads the file again.
Reload ==
    /\ pc = "ready" /\ clock < ClockStart + MaxCalls
    /\ hdata' = Load(hfile)
    /\ hlast' = Last("reload", "", <<>>, hdata, NoTotals)
    /\ clock' = clock + 1
    /\ UNCHANGED <<pc, hfile0, hfile, parseVars, aggVars, costVars>>

NextHist == Construct \/ AddSnapshot \/ AddApiCall \/ ApiTotals \/ Reload

SpecHist == InitHist /\ [][NextHist]_vars

(***************************************************************************)
(* Properties of UsageHistory.                                             *)
(***************************************************************************)
IsList(data, key) == data.t = "dict" /\ data[key].t = "list"
KeyOf(op)   == IF op = "add_snapshot" THEN "snapshots" ELSE "api_calls"
OtherOf(op) == IF op = "add_snapshot" THEN "api_calls" ELSE "snapshots"
CapOf(op)   == IF op = "add_snapshot" THEN SnapshotCap ELSE ApiCallCap
IsAppend    == hlast.op \in {"add_snapshot", "add_api_call"}
Appended    == IsAppend /\ hlast.raised = ""

WithinCaps ==
    /\ IsList(hdata, "snapshots") => Len(hdata.snapshots.items) <= SnapshotCap
    /\ IsList(hdata, "api_calls") => Len(hdata.api_calls.items) <= ApiCallCap

LastIsAppended ==
    LET new == hdata[KeyOf(hlast.op)].items
    IN new # <<>> /\ new[Len(new)] = hlast.entry

MostRecentInOrder ==
    LET all  == Append(hlast.before[KeyOf(hlast.op)].items, hlast.entry)
        new  == hdata[KeyOf(hlast.op)].items
        drop == IF Len(all) > CapOf(hlast.op) THEN Len(all) - CapOf(hlast.op) ELSE 0
    IN /\ Len(new) = Len(all) - drop
       /\ \A i \in 1..Len(new) : new[i] = all[i + drop]

ReloadedSame ==
    LET again == Load(hfile)
    IN /\ again.snapshots = hdata.snapshots
       /\ again.api_calls = hdata.api_calls

ReloadedStringified ==
    LET again == Load(hfile)
        mine  == hdata.snapshots.items
        back  == again.snapshots.items
    IN /\ again.t = "dict"
       /\ again.api_calls = hdata.api_calls
       /\ again.snapshots.t = hdata.snapshots.t
       /\ Len(back) = Len(mine)
       /\ \A i \in 1..Len(mine) :
            /\ back[i].timestamp = mine[i].timestamp
            /\ back[i].stats = IF mine[i].stats.t \in {"int", "str"} THEN mine[i].stats
                               ELSE PyStr(mine[i].stats.n)

ProperDocument(file) ==
    file.kind = "json" /\ IsList(file.doc, "snapshots") /\ IsList(file.doc, "api_calls")
FirstCall(op) == clock = ClockStart + 1 /\ hlast.op = op

\* C6: when the history file is missing, unreadable or anything but a JSON
\* document with the two arrays, the constructed store is the empty store:
\* both lists are empty, a following get_api_totals returns all zeros, and a
\* following add_snapshot or add_api_call succeeds and leaves exactly one entry.
C6_UnusableFileIsEmptyStore ==
    (pc = "ready" /\ ~ProperDocument(hfile0)) =>
        /\ hlast.op = "construct" => hdata = EmptyStore
        /\ FirstCall("get_api_totals") => hlast.raised = "" /\ hlast.totals = NoTotals
        /\ (FirstCall("add_snapshot") \/ FirstCall("add_api_call")) =>
               /\ hlast.raised = ""
               /\ IsList(hdata, KeyOf(hlast.op))
               /\ Len(hdata[KeyOf(hlast.op)].items) = 1

(***************************************************************************)
(* _extract_project_name over the paths of the model: parse_jsonl_file     *)
(* calls it on its argument when it builds the stats dict (line 75).       *)
(***************************************************************************)
MaxParts == 3

PartPool ==
    {<<"">>,                            \* "" (a leading or doubled "/")
     <<"home">>,
     <<"projects">>,
     <<"projects2">>,
     <<"my", "app">>,                   \* "my-app"
     <<"", "Users", "me", "app">>,      \* "-Users-me-app"
     <<"", "Users", "me", "app", "">>,  \* "-Users-me-app-"
     <<"", "a", "", "b">>,              \* "-a--b"
     <<"", "">>}                        \* "-"

Paths == SeqsUpTo(PartPool, MaxParts) \ {<<>>}

InitProject ==
    /\ pc = "call"
    /\ IdleParse /\ IdleAgg /\ IdleHist /\ IdleCost

\* parse_jsonl_file, lines 73-86: the stats dict of a path.
StartParse ==
    /\ pc = "call"
    /\ \E filepath \in Paths : stats' = NewStats(filepath)
    /\ pc' = "open"
    /\ UNCHANGED <<openable, lines, pos, aggVars, histVars, costVars>>

NextProject == StartParse

SpecProject == InitProject /\ [][NextProject]_vars

\* The label the specification gives a path: the part after the first
\* "projects" part is the token; a token starting with "-" gives its last
\* non-empty piece, another token itself; no "projects" part gives "unknown".
HasProjectsPart(filepath) == \E i \in 1..Len(filepath) : filepath[i] = <<"projects">>
TokenOf(filepath) ==
    filepath[1 + CHOOSE i \in 1..(Len(filepath) - 1) :
                   /\ filepath[i] = <<"projects">>
                   /\ \A j \in 1..(i - 1) : filepath[j] # <<"projects">>]
HasToken(filepath) == \E i \in 1..(Len(filepath) - 1) : filepath[i] = <<"projects">>
NonEmptyPieces(token) == {j \in 1..Len(token) : token[j] # ""}
LastNonEmptyPiece(token) ==
    token[CHOOSE j \in NonEmptyPieces(token) : \A k \in NonEmptyPieces(token) : k <= j]

\* C12: the project label of a path is "unknown" when the path has no
\* "projects" part; otherwise, with the token the part that follows the
\* "projects" part, it is the last non-empty piece of the token split on "-"
\* when the token starts with "-" (and has such a piece), and the token
\* verbatim when it does not start with "-".
C12_ProjectLabel ==
    pc = "open" =>
        LET filepath == stats.file IN
        /\ ~HasProjectsPart(filepath) => stats.project = <<"unknown">>
        /\ HasToken(filepath) =>
             LET token == TokenOf(filepath) IN
             /\ (StartsWithDash(token) /\ NonEmptyPieces(token) # {}) =>
                    stats.project = <<LastNonEmptyPiece(token)>>
             /\ ~StartsWithDash(token) => stats.project = token

====
